---- MODULE Spec2Model ----
(***************************************************************************)
(* Model of the retry engine (src/src/retry.ts) and of the API client      *)
(* (src/src/client.ts) of opencode-puter-auth.                             *)
(*                                                                         *)
(* Error messages are modelled as sequences of tokens; String.includes is  *)
(* membership of a token in the sequence, toLowerCase maps each token to   *)
(* its lower-case form.  Delays are integers in milliseconds.              *)
(***************************************************************************)
EXTENDS Integers, Sequences, FiniteSets, TLC

VARIABLES
    policy,      \* the RetryOptions of the running withRetry call
    pc,          \* position of the withRetry call
    attempt,     \* loop variable `attempt` of withRetry
    calls,       \* number of invocations of operation() so far
    lastError,   \* local `lastError` of withRetry
    sleepDelay,  \* argument of the pending sleep(delay)
    settled,     \* value withRetry resolved or rejected with
    trace,       \* observable events of the call, in order
    config,      \* PuterClient.config
    debug,       \* PuterClient.debug
    http,        \* what the running attempt of makeRequest awaits
    status,      \* status of the response the running attempt received
    timers,      \* the timeout timer of each attempt of makeRequest, in order
    requests,    \* the HTTP requests sent so far, each with the response read for it
    authToken,   \* PuterClient.authToken
    sentTokens,  \* the auth_token each HTTP request carried, in order
    wire,        \* the bytes the server sends on the streaming response
    sent,        \* how many bytes of wire the reads have delivered
    buffer,      \* local `buffer` of chatStream
    pending,     \* lines of the running for-of loop that are not yet visited
    emitted,     \* the chunks chatStream has yielded, in order
    spc,         \* position of the chatStream generator
    demand,      \* the consumer of chatStream awaits the result of next()
    payload,     \* the data response.json() resolved with
    outcome,     \* what the client method returned or threw
    deadline,    \* the delay chatStream passed to setTimeout
    history      \* how the earlier calls on this client settled, in order

retryVars == <<policy, pc, attempt, calls, lastError, sleepDelay, settled, trace>>
clientVars == <<config, debug, http, status, timers, requests, authToken, sentTokens>>
streamVars == <<wire, sent, buffer, pending, emitted, spc, demand>>
callVars == <<payload, outcome, deadline, history>>
vars == <<retryVars, clientVars, streamVars, callVars>>

----------------------------------------------------------------------------
(* Bounds of the model *)

MaxRetriesBound == 2
MaxInitialDelay == 2
MaxBackoff == 2
MaxDelayBound == 4
MaxLines == 3

----------------------------------------------------------------------------
(* Messages and thrown values *)

Paren(n) == [k |-> "paren", n |-> n, w |-> ""]        \* the text "(n)"
StatusTok(n) == [k |-> "status", n |-> n, w |-> ""]   \* the text "status n"
StatusCap(n) == [k |-> "Status", n |-> n, w |-> ""]   \* the text "Status n"
Word(s) == [k |-> "word", n |-> 0, w |-> s]

LowerWord(s) ==
    CASE s = "ECONNRESET" -> "econnreset"
      [] s = "ECONNREFUSED" -> "econnrefused"
      [] s = "Timeout" -> "timeout"
      [] s = "Network" -> "network"
      [] s = "Rate limit" -> "rate limit"
      [] s = "Too Many Requests" -> "too many requests"
      [] s = "Unauthorized" -> "unauthorized"
      [] s = "Server error" -> "server error"
      [] OTHER -> s

\* String.prototype.toLowerCase on a message
ToLowerCase(msg) ==
    [i \in 1..Len(msg) |->
        IF msg[i].k = "Status" THEN StatusTok(msg[i].n)
        ELSE IF msg[i].k = "word" THEN Word(LowerWord(msg[i].w))
        ELSE msg[i]]

\* String.prototype.includes
Includes(msg, tok) == \E i \in 1..Len(msg) : msg[i] = tok

\* a JavaScript value that can be thrown; id names the object:
\* id > 0 is the invocation of operation() that produced it,
\* id = 0 is an object created inside withRetry
ErrorObj(msg, id) == [type |-> "Error", message |-> msg, id |-> id]
StringVal(msg, id) == [type |-> "string", message |-> msg, id |-> id]
NullVal(id) == [type |-> "null", message |-> <<>>, id |-> id]
Value(id) == [type |-> "value", message |-> <<>>, id |-> id]
None == [type |-> "none", message |-> <<>>, id |-> 0]

\* values of PuterClient.authToken: the constructor's argument, and the
\* argument of a later setAuthToken
InitialToken == "token0"
Tokens == {InitialToken, "token1"}

\* what a client method settled with: the value returned (a list of models
\* or a boolean) or the error thrown
Outcome(kind, error, models, flag) ==
    [kind |-> kind, error |-> error, models |-> models, flag |-> flag]
Running == Outcome("running", None, <<>>, FALSE)
Threw(error) == Outcome("threw", error, <<>>, FALSE)
ReturnedList(models) == Outcome("returned", None, models, FALSE)
ReturnedFlag(flag) == Outcome("returned", None, <<>>, flag)
ReturnedValue == Outcome("returned", None, <<>>, FALSE)

\* the parsed body of a success response of /drivers/call: null, an object
\* without result, a result without message, or a message with its content
Data(kind, content) == [kind |-> kind, content |-> content]
NoData == Data("none", "")
ChatPayloads ==
    { Data("null", ""), Data("object", ""), Data("result", ""),
      Data("message", ""), Data("message", "OK") }

IsErrorInstance(v) == v.type \in {"Error", "RetryError"}

\* an optional field that is not set
Undefined == [defined |-> FALSE, v |-> 0]
Defined(n) == [defined |-> TRUE, v |-> n]

\* String(error) of a non-Error value
StringOf(v) == IF v.type = "null" THEN <<Word("null")>> ELSE v.message

----------------------------------------------------------------------------
(* retry.ts *)

DEFAULT_RETRYABLE_STATUSES == <<429, 500, 502, 503, 504>>

TransientMarkers ==
    <<"timeout", "econnreset", "econnrefused", "network", "socket hang up",
      "rate limit", "too many requests">>

RECURSIVE Pow(_, _)
Pow(b, e) == IF e = 0 THEN 1 ELSE b * Pow(b, e - 1)

Min(a, b) == IF a < b THEN a ELSE b
Max(a, b) == IF a > b THEN a ELSE b

\* backoffFactor is a JavaScript number and need not be whole: a policy may
\* carry it as the fraction backoffFactor / backoffDen (a whole number when
\* the policy has no backoffDen).
BackoffDen(opts) == IF "backoffDen" \in DOMAIN opts THEN opts.backoffDen ELSE 1

\* Math.min(initialDelay * Math.pow(backoffFactor, attempt), maxDelay) as the
\* fraction num / den
CappedDelay(att, opts) ==
    LET den == Pow(BackoffDen(opts), att)
    IN  [num |-> Min(opts.initialDelay * Pow(opts.backoffFactor, att),
                     opts.maxDelay * den),
         den |-> den]

\* faulty variant: the fraction is dropped instead of rounded
RoundDown(num, den) == num \div den

\* Math.round of the non-negative fraction num / den: halves round up
Round(num, den) == (2 * num + den) \div (2 * den)

\* faulty variant: the jitter flag is ignored
CalculateDelayNoJitter(att, opts) ==
    LET c == CappedDelay(att, opts)
    IN  { Round(c.num, c.den) }

\* The set of values calculateDelay(attempt, options) can return.  With
\* jitter, Math.random() in [0,1) gives cappedDelay + randomJitter in
\* [0.75c, 1.25c) (just c when c = 0), and Math.round rounds halves up.
CalculateDelay(att, opts) ==
    LET c == CappedDelay(att, opts)
    IN  IF opts.jitter
        THEN { Max(0, n) : n \in Round(3 * c.num, 4 * c.den)
                                  ..((5 * c.num + 2 * c.den - 1) \div (4 * c.den)) }
        ELSE { Round(c.num, c.den) }

\* faulty variant: the message is searched as written, without toLowerCase
IsRetryableCaseSensitive(error, retryableStatuses) ==
    /\ IsErrorInstance(error)
    /\ \/ \E i \in 1..Len(retryableStatuses) :
             \/ Includes(error.message, Paren(retryableStatuses[i]))
             \/ Includes(error.message, StatusTok(retryableStatuses[i]))
       \/ \E j \in 1..Len(TransientMarkers) :
             Includes(error.message, Word(TransientMarkers[j]))

IsRetryableError(error, retryableStatuses) ==
    /\ IsErrorInstance(error)
    /\ LET message == ToLowerCase(error.message)
       IN  \/ \E i \in 1..Len(retryableStatuses) :
                \/ Includes(message, Paren(retryableStatuses[i]))
                \/ Includes(message, StatusTok(retryableStatuses[i]))
           \/ \E j \in 1..Len(TransientMarkers) :
                Includes(message, Word(TransientMarkers[j]))

\* RetryError(`Operation failed after N attempts`, N, lastError)
RetryErrorObj(attempts) ==
    [type |-> "RetryError", message |-> <<Word("Operation failed after"), Paren(attempts)>>,
     id |-> 0]

Event(ev, att, delay, value) ==
    [ev |-> ev, attempt |-> att, delay |-> delay, value |-> value]

\* faulty variant: every caught value is wrapped in a new Error
NormalizeAlwaysWraps(error) == ErrorObj(StringOf(error), 0)

\* line 189: lastError = error instanceof Error ? error : new Error(String(error))
Normalize(error) ==
    IF IsErrorInstance(error) THEN error ELSE ErrorObj(StringOf(error), 0)

\* faulty variant: the last attempt is recognised one attempt early
IsLastAttemptEarly(att, maxRetries) == att + 1 = maxRetries

\* line 192
IsLastAttempt(att, maxRetries) == att = maxRetries

\* faulty variant: the classifier is not consulted
ShouldRetryAnyError(att, error, opts) == ~IsLastAttempt(att, opts.maxRetries)

\* line 193
ShouldRetry(att, error, opts) ==
    ~IsLastAttempt(att, opts.maxRetries) /\ IsRetryableError(error, opts.retryableStatuses)

\* faulty variant: the loop stops one attempt short of the last-attempt check
LoopStopsShort(att, maxRetries) == att < maxRetries

\* line 185: the loop condition
LoopContinues(att, maxRetries) == att <= maxRetries

\* faulty variant: the delay is computed for the next attempt
DelayIndexNext(att) == att + 1

\* line 200: the attempt index handed to calculateDelay
DelayIndex(att) == att

\* line 204: the attempt number handed to onRetry
OnRetryIndex(att) == att + 1

\* Evaluate the loop condition for attempt `att`: either invoke operation()
\* (line 187) or fall out of the loop and throw RetryError (lines 213-217).
EnterLoop(opts, att, tr) ==
    IF LoopContinues(att, opts.maxRetries)
    THEN /\ pc' = "operation"
         /\ calls' = calls + 1
         /\ trace' = Append(tr, Event("invoke", att, 0, None))
         /\ settled' = settled
    ELSE /\ pc' = "rejected"
         /\ calls' = calls
         /\ settled' = RetryErrorObj(opts.maxRetries + 1)
         /\ trace' = Append(tr, Event("reject", att, 0, RetryErrorObj(opts.maxRetries + 1)))

\* The catch block of withRetry (lines 188-209) up to the await of sleep.
Catch(error, tr) ==
    /\ lastError' = Normalize(error)
    /\ IF ~ShouldRetry(attempt, error, policy)
       THEN /\ pc' = "rejected"
            /\ settled' = Normalize(error)
            /\ trace' = Append(tr, Event("reject", attempt, 0, Normalize(error)))
            /\ sleepDelay' = sleepDelay
       ELSE \E delay \in CalculateDelay(DelayIndex(attempt), policy) :
            /\ pc' = "sleeping"
            /\ sleepDelay' = delay
            /\ settled' = settled
            /\ trace' =
                 (IF policy.hasOnRetry
                  THEN Append(tr, Event("onRetry", OnRetryIndex(attempt), delay, Normalize(error)))
                  ELSE tr) \o <<Event("sleep", attempt, delay, None)>>
    /\ UNCHANGED <<policy, attempt, calls>>

----------------------------------------------------------------------------
(* withRetry driven by an arbitrary operation *)

Policies ==
    [maxRetries : -1..MaxRetriesBound,
     initialDelay : 1..MaxInitialDelay,
     maxDelay : {MaxDelayBound - 1, MaxDelayBound},
     backoffFactor : 0..MaxBackoff,
     jitter : BOOLEAN,
     retryableStatuses : {DEFAULT_RETRYABLE_STATUSES, <<401>>},
     hasOnRetry : BOOLEAN]

\* what one invocation of the operation can fail with
Failures(id) ==
    { ErrorObj(<<Word("Puter API error"), Paren(500), Word("Server error")>>, id),
      ErrorObj(<<Word("Puter API error"), Paren(401), Word("Unauthorized")>>, id),
      ErrorObj(<<Word("Request"), Word("Timeout")>>, id),
      ErrorObj(<<Word("bad input")>>, id),
      StringVal(<<Word("timeout")>>, id),
      NullVal(id) }

InitRetry ==
    /\ policy \in Policies
    /\ pc = "idle"
    /\ attempt = 0
    /\ calls = 0
    /\ lastError = ErrorObj(<<Word("Unknown error")>>, 0)
    /\ sleepDelay = 0
    /\ settled = None
    /\ trace = <<>>
    /\ config = [max_retries |-> Undefined, retry_delay_ms |-> Undefined, debug |-> FALSE]
    /\ debug = FALSE
    /\ http = "none"
    /\ status = 0
    /\ timers = <<>>
    /\ requests = <<>>
    /\ wire = <<>>
    /\ sent = 0
    /\ buffer = <<>>
    /\ pending = <<>>
    /\ emitted = <<>>
    /\ spc = "unused"
    /\ demand = FALSE
    /\ authToken = InitialToken
    /\ sentTokens = <<>>
    /\ payload = NoData
    /\ outcome = Running
    /\ deadline = 0
    /\ history = <<>>

\* withRetry(operation, options) is called: first evaluation of the loop
WithRetryCall ==
    /\ pc = "idle"
    /\ EnterLoop(policy, 0, trace)
    /\ UNCHANGED <<policy, attempt, lastError, sleepDelay, clientVars>>
    /\ UNCHANGED <<streamVars, callVars>>

\* operation() resolves: `return await operation()`
OperationResolves ==
    /\ pc = "operation"
    /\ pc' = "resolved"
    /\ settled' = Value(calls)
    /\ trace' = Append(trace, Event("resolve", attempt, 0, Value(calls)))
    /\ UNCHANGED <<policy, attempt, calls, lastError, sleepDelay, clientVars>>
    /\ UNCHANGED <<streamVars, callVars>>

\* operation() rejects with some value: the catch block runs
OperationRejects ==
    /\ pc = "operation"
    /\ \E error \in Failures(calls) :
         Catch(error, Append(trace, Event("fail", attempt, 0, error)))
    /\ UNCHANGED clientVars
    /\ UNCHANGED <<streamVars, callVars>>

\* sleep(delay) resolves: attempt++ and the loop condition is evaluated
SleepResolves ==
    /\ pc = "sleeping"
    /\ attempt' = attempt + 1
    /\ EnterLoop(policy, attempt + 1, trace)
    /\ UNCHANGED <<policy, lastError, sleepDelay, clientVars>>
    /\ UNCHANGED <<streamVars, callVars>>

NextRetry ==
    \/ WithRetryCall
    \/ OperationResolves
    \/ OperationRejects
    \/ SleepResolves

SpecRetry == InitRetry /\ [][NextRetry]_vars

----------------------------------------------------------------------------
(* client.ts: chat -> makeRequest -> withRetry *)

DEFAULT_TIMEOUT == 120000
DEFAULT_MAX_RETRIES == 3
DEFAULT_RETRY_DELAY == 1000
DEFAULT_MAX_DELAY == 30000
DEFAULT_BACKOFF_FACTOR == 2

\* a ?? b
Nullish(field, default) == IF field.defined THEN field.v ELSE default

\* get retryOptions(), completed with the defaults withRetry destructures
RetryOptionsOf(cfg, dbg) ==
    [maxRetries |-> Nullish(cfg.max_retries, DEFAULT_MAX_RETRIES),
     initialDelay |-> Nullish(cfg.retry_delay_ms, DEFAULT_RETRY_DELAY),
     maxDelay |-> DEFAULT_MAX_DELAY,
     backoffFactor |-> DEFAULT_BACKOFF_FACTOR,
     jitter |-> TRUE,
     retryableStatuses |-> DEFAULT_RETRYABLE_STATUSES,
     hasOnRetry |-> dbg]

\* get timeout(): this.config.api_timeout_ms || DEFAULT_TIMEOUT
Timeout(cfg) ==
    IF cfg.api_timeout_ms.defined /\ cfg.api_timeout_ms.v # 0
    THEN cfg.api_timeout_ms.v
    ELSE DEFAULT_TIMEOUT

\* Response.ok
Ok(st) == st >= 200 /\ st <= 299

\* new Error(`Puter API error (${response.status}): ${errorText}`)
HttpError(st, body, id) == ErrorObj(<<Word("Puter API error"), Paren(st)>> \o body, id)

\* what fetch, response.text() or response.json() reject with when the
\* request is aborted through controller.signal
AbortError(id) == ErrorObj(<<Word("This operation was aborted")>>, id)

\* response.json() on a body that is not JSON
SyntaxError(id) == ErrorObj(<<Word("Unexpected token")>>, id)

ClientConfigs ==
    [max_retries : {Undefined} \cup {Defined(n) : n \in 0..MaxRetriesBound},
     retry_delay_ms : {Defined(n) : n \in 1..MaxInitialDelay},
     api_timeout_ms : {Undefined},
     debug : BOOLEAN]

\* statuses the server answers with
Statuses == {200, 401, 500}

\* texts of an error response body
Bodies ==
    { <<Word("Unauthorized")>>,
      <<Word("Rate limit"), Word("exceeded")>>,
      <<Word("upstream"), Paren(503)>> }

\* what a failing transport makes fetch or a body read reject with
NetworkErrors(id) ==
    { ErrorObj(<<Word("fetch failed")>>, id),
      ErrorObj(<<Word("read"), Word("ECONNRESET")>>, id) }

Request(st, body, read) == [status |-> st, body |-> body, read |-> read]

SetLast(seq, x) == [seq EXCEPT ![Len(seq)] = x]

\* the constructor (lines 28-32): this.config refers to the object the
\* caller passed, this.debug is a copy of its debug field
Constructed(configs) ==
    /\ config \in configs
    /\ debug = config.debug

\* no method of the client has been called
NoCallYet ==
    /\ policy = RetryOptionsOf([max_retries |-> Undefined, retry_delay_ms |-> Undefined,
                                debug |-> FALSE], FALSE)
    /\ pc = "idle"
    /\ attempt = 0
    /\ calls = 0
    /\ lastError = ErrorObj(<<Word("Unknown error")>>, 0)
    /\ sleepDelay = 0
    /\ settled = None
    /\ trace = <<>>
    /\ http = "none"
    /\ status = 0
    /\ timers = <<>>
    /\ requests = <<>>
    /\ wire = <<>>
    /\ sent = 0
    /\ buffer = <<>>
    /\ pending = <<>>
    /\ emitted = <<>>
    /\ spc = "unused"
    /\ demand = FALSE
    /\ authToken = InitialToken
    /\ sentTokens = <<>>
    /\ payload = NoData
    /\ outcome = Running
    /\ deadline = 0
    /\ history = <<>>

InitChat ==
    /\ Constructed(ClientConfigs)
    /\ NoCallYet

\* faulty variant: the token is captured when the call is issued
RequestTokenAtCall == IF sentTokens = <<>> THEN authToken ELSE sentTokens[1]

\* auth_token: this.authToken (lines 151, 302) and the Authorization header
\* of line 230: the field is read when the operation builds the request
RequestToken == authToken

\* The operation of makeRequest up to `await fetch` (lines 288-305), run
\* when withRetry has just invoked it: the timer is armed, the request sent.
StartAttempt ==
    IF pc' = "operation"
    THEN /\ http' = "fetch"
         /\ timers' = Append(timers, "armed")
         /\ requests' = Append(requests, Request(0, <<>>, FALSE))
         /\ sentTokens' = Append(sentTokens, RequestToken)
         /\ deadline' = Timeout(config)
    ELSE /\ http' = "none"
         /\ UNCHANGED <<timers, requests, sentTokens, deadline>>

\* faulty variant: the timer is left armed
LeaveTimeout(ts) == ts

\* finally { clearTimeout(timeoutId) } (lines 314-316)
ClearTimeout(ts) == IF ts[Len(ts)] = "armed" THEN SetLast(ts, "cleared") ELSE ts

\* The attempt rejects with `error`: the finally block, then withRetry's catch.
AttemptRejects(error, ts) ==
    /\ timers' = ClearTimeout(ts)
    /\ http' = "none"
    /\ Catch(error, Append(trace, Event("fail", attempt, 0, error)))

\* chat(messages, options): makeRequest calls withRetry with this.retryOptions
ChatCall ==
    /\ pc = "idle"
    /\ policy' = RetryOptionsOf(config, debug)
    /\ EnterLoop(RetryOptionsOf(config, debug), 0, trace)
    /\ StartAttempt
    /\ UNCHANGED <<attempt, lastError, sleepDelay, config, debug, status, authToken>>
    /\ UNCHANGED <<streamVars, payload, outcome, history>>

\* fetch resolves with a response: next is response.text() or response.json()
FetchResponds ==
    /\ pc = "operation"
    /\ http = "fetch"
    /\ \E st \in Statuses :
         /\ status' = st
         /\ http' = IF Ok(st) THEN "json" ELSE "text"
         /\ requests' = SetLast(requests, Request(st, <<>>, FALSE))
    /\ UNCHANGED <<retryVars, config, debug, timers, authToken, sentTokens>>
    /\ UNCHANGED <<streamVars, callVars>>

\* response.text() resolves: the error is thrown (lines 307-310)
ErrorTextRead ==
    /\ pc = "operation"
    /\ http = "text"
    /\ \E body \in Bodies :
         /\ requests' = SetLast(requests, Request(status, body, TRUE))
         /\ AttemptRejects(HttpError(status, body, calls), timers)
    /\ UNCHANGED <<config, debug, status, authToken, sentTokens>>
    /\ UNCHANGED <<streamVars, callVars>>

\* response.json() resolves: the operation returns data (lines 312-313)
JsonRead ==
    /\ pc = "operation"
    /\ http = "json"
    /\ requests' = SetLast(requests, Request(status, <<>>, TRUE))
    /\ timers' = ClearTimeout(timers)
    /\ http' = "none"
    /\ pc' = "resolved"
    /\ settled' = Value(calls)
    /\ trace' = Append(trace, Event("resolve", attempt, 0, Value(calls)))
    /\ payload' \in ChatPayloads
    /\ UNCHANGED <<policy, attempt, calls, lastError, sleepDelay, config, debug, status>>
    /\ UNCHANGED <<authToken, sentTokens, streamVars, outcome, deadline, history>>

\* response.json() rejects: the body is not JSON
JsonFails ==
    /\ pc = "operation"
    /\ http = "json"
    /\ AttemptRejects(SyntaxError(calls), timers)
    /\ UNCHANGED <<config, debug, status, requests, authToken, sentTokens>>
    /\ UNCHANGED <<streamVars, callVars>>

\* the transport fails while fetch or a body read is pending
TransportFails ==
    /\ pc = "operation"
    /\ http \in {"fetch", "text", "json"}
    /\ \E error \in NetworkErrors(calls) : AttemptRejects(error, timers)
    /\ UNCHANGED <<config, debug, status, requests, authToken, sentTokens>>
    /\ UNCHANGED <<streamVars, callVars>>

\* faulty variant: the signal cancels the pending fetch only, not a body read
AbortableFetchOnly(h) == h = "fetch"

\* the awaits of an attempt that controller.signal cancels: fetch, and the
\* read of the body of the response fetch resolved with (lines 292-312)
Abortable(h) == h \in {"fetch", "text", "json"}

\* the timeout timer of the running attempt fires: controller.abort()
\* makes the pending fetch or body read reject
TimerFires ==
    /\ pc = "operation"
    /\ Abortable(http)
    /\ timers[Len(timers)] = "armed"
    /\ AttemptRejects(AbortError(calls), SetLast(timers, "fired"))
    /\ UNCHANGED <<config, debug, status, requests, authToken, sentTokens>>
    /\ UNCHANGED <<streamVars, callVars>>

\* sleep(delay) resolves inside makeRequest's withRetry: next attempt
RetrySleepResolves ==
    /\ pc = "sleeping"
    /\ attempt' = attempt + 1
    /\ EnterLoop(policy, attempt + 1, trace)
    /\ StartAttempt
    /\ UNCHANGED <<policy, lastError, sleepDelay, config, debug, status, authToken>>
    /\ UNCHANGED <<streamVars, payload, outcome, history>>

NextChat ==
    \/ ChatCall
    \/ FetchResponds
    \/ ErrorTextRead
    \/ JsonRead
    \/ JsonFails
    \/ TransportFails
    \/ TimerFires
    \/ RetrySleepResolves

SpecChat == InitChat /\ [][NextChat]_vars

----------------------------------------------------------------------------
(* client.ts: the decoding loop of chatStream (lines 164-205) *)

\* A line of the wire is a sequence of characters.  The JSON texts of the
\* model are {a} (a chunk with text a), {d} (a chunk with done = true) and
\* n (the literal null); white space between the characters is
\* insignificant.
Chunk(text, done) == [text |-> text, done |-> done]

RECURSIVE SplitFrom(_, _, _)
SplitFrom(str, i, cur) ==
    IF i > Len(str) THEN <<cur>>
    ELSE IF str[i] = "\n" THEN <<cur>> \o SplitFrom(str, i + 1, <<>>)
    ELSE SplitFrom(str, i + 1, Append(cur, str[i]))

\* String.prototype.split('\n')
Split(str) == SplitFrom(str, 1, <<>>)

RECURSIVE TrimStart(_)
TrimStart(str) ==
    IF str # <<>> /\ Head(str) = " " THEN TrimStart(Tail(str)) ELSE str

RECURSIVE TrimEnd(_)
TrimEnd(str) ==
    IF str # <<>> /\ str[Len(str)] = " " THEN TrimEnd(SubSeq(str, 1, Len(str) - 1)) ELSE str

\* String.prototype.trim
Trim(str) == TrimEnd(TrimStart(str))

\* JSON.parse(line): ok = FALSE stands for the SyntaxError it throws
JsonParse(line) ==
    LET t == SelectSeq(line, LAMBDA c : c # " ")
    IN  IF t = <<"{", "a", "}">> THEN [ok |-> TRUE, chunk |-> Chunk("a", FALSE)]
        ELSE IF t = <<"{", "d", "}">> THEN [ok |-> TRUE, chunk |-> Chunk("", TRUE)]
        ELSE IF t = <<"n">> THEN [ok |-> TRUE, chunk |-> Chunk("null", FALSE)]
        ELSE [ok |-> FALSE, chunk |-> Chunk("", FALSE)]

\* faulty variant: an exception in the loop body aborts the stream
ParseErrorPropagates == FALSE

\* lines 190-193: catch { continue } around JSON.parse, yield and chunk.done
ParseErrorCaught == TRUE

\* The for-of loop over `lines` (lines 180-194) from its next line up to
\* the next yield: the chunk yielded and the lines left, or the end of the
\* loop, or the exception that leaves it.
RECURSIVE RunLines(_)
RunLines(ls) ==
    IF ls = <<>> THEN [kind |-> "exhausted", chunk |-> Chunk("", FALSE), rest |-> <<>>]
    ELSE IF Trim(Head(ls)) = <<>> THEN RunLines(Tail(ls))
    ELSE IF JsonParse(Head(ls)).ok
         THEN [kind |-> "yield", chunk |-> JsonParse(Head(ls)).chunk, rest |-> Tail(ls)]
    ELSE IF ParseErrorCaught THEN RunLines(Tail(ls))
    ELSE [kind |-> "throw", chunk |-> Chunk("", FALSE), rest |-> Tail(ls)]

\* faulty variant: the partial line is dropped instead of re-buffered
RebufferNothing(parts) == <<>>

\* line 178: buffer = lines.pop() || ''
Rebuffer(parts) == parts[Len(parts)]

\* faulty variant: the generator goes on after a done chunk
ReturnsAfterNever(chunk) == FALSE

\* lines 187-189: if (chunk.done) return
ReturnsAfter(chunk) == chunk.done

\* What the generator does when it resumes after the yield of line 185;
\* reading .done of null throws a TypeError inside the try block.
AfterYield(chunk) ==
    IF chunk.text = "null"
    THEN IF ParseErrorCaught THEN "continue" ELSE "throw"
    ELSE IF ReturnsAfter(chunk) THEN "return" ELSE "continue"

\* faulty variant: the remaining buffer is never processed
TailYieldsNever(buf) == FALSE

\* lines 198-205: the remaining buffer yields a chunk
TailYields(buf) == Trim(buf) # <<>> /\ JsonParse(buf).ok

\* faulty variant: the next reader.read() is issued while decoded lines remain
AfterLinesPrefetch(r) ==
    IF r.kind = "yield" /\ r.rest # <<>> THEN "read"
    ELSE IF r.kind = "yield" THEN "yield"
    ELSE IF r.kind = "exhausted" THEN "read" ELSE "threw"

\* where the generator is after running the for-of loop: suspended at the
\* yield of line 185, or, the lines exhausted, awaiting the next
\* reader.read() of line 173
AfterLines(r) ==
    IF r.kind = "yield" THEN "yield"
    ELSE IF r.kind = "exhausted" THEN "read" ELSE "threw"

\* Continue the for-of loop over `ls`; when it is exhausted the while loop
\* issues the next reader.read() (line 173).
ContinueLoop(ls) ==
    LET r == RunLines(ls)
    IN  /\ pending' = r.rest
        /\ emitted' = IF r.kind = "yield" THEN Append(emitted, r.chunk) ELSE emitted
        /\ spc' = AfterLines(r)

\* faulty variant: the signal is not handed to the transport
SignalNeverAborted == FALSE

\* signal: controller.signal (line 153): the transport of chatStream sees
\* the abort of the controller, which the timer of line 129 performs
SignalAborted == timers # <<>> /\ timers[Len(timers)] = "fired"

\* the generator has answered the consumer's next(): it is suspended at a
\* yield, or it has returned or thrown
Answered(pos) == pos \in {"yield", "tail", "done", "threw"}

\* faulty variant: the timer is cleared on normal completion only
FinallyOnReturnOnly(pos) == pos = "done"

\* the try block of lines 131-205 is left, by return or by throw: the
\* finally block of lines 206-208 runs
FinallyRuns(pos) == pos \in {"done", "threw"}

\* The generator has run up to position spc': the finally block if it has
\* left the try block, and the result of the method.
StreamSettles(ts, error) ==
    /\ timers' = IF FinallyRuns(spc') THEN ClearTimeout(ts) ELSE ts
    /\ outcome' = IF spc' = "done" THEN ReturnedValue
                  ELSE IF spc' = "threw" THEN Threw(error) ELSE outcome

\* what the decoding loop leaves alone
streamFrame ==
    <<retryVars, config, debug, http, status, requests, authToken, sentTokens, payload, deadline, history>>

\* texts of the lines the server sends
LineTexts == { <<"{", "a", "}">>, <<"n">>, <<"{", "d", "}">>, <<" ">>, <<"{", "a">> }

RECURSIVE Join(_)
Join(ls) ==
    IF Len(ls) = 1 THEN ls[1] ELSE ls[1] \o <<"\n">> \o Join(Tail(ls))

\* the byte streams of the model: up to MaxLines lines, each ended by a
\* newline, followed by a last fragment without one
Wires ==
    { Join(Append(ls, f)) :
        ls \in UNION { [1..k -> LineTexts] : k \in 0..MaxLines },
        f \in LineTexts \cup {<<>>} }

InitStream ==
    /\ wire \in Wires
    /\ sent = 0
    /\ buffer = <<>>
    /\ pending = <<>>
    /\ emitted = <<>>
    /\ spc = "connected"
    /\ demand = TRUE
    /\ policy = RetryOptionsOf([max_retries |-> Undefined, retry_delay_ms |-> Undefined,
                                debug |-> FALSE], FALSE)
    /\ pc = "resolved"
    /\ attempt = 0
    /\ calls = 1
    /\ lastError = ErrorObj(<<Word("Unknown error")>>, 0)
    /\ sleepDelay = 0
    /\ settled = Value(1)
    /\ trace = <<>>
    /\ config = [max_retries |-> Undefined, retry_delay_ms |-> Undefined, debug |-> FALSE]
    /\ debug = FALSE
    /\ http = "none"
    /\ status = 200
    /\ timers = <<"armed">>
    /\ requests = <<Request(200, <<>>, FALSE)>>
    /\ authToken = InitialToken
    /\ sentTokens = <<InitialToken>>
    /\ payload = NoData
    /\ outcome = Running
    /\ deadline = DEFAULT_TIMEOUT
    /\ history = <<>>

\* lines 164-173: the response has a body; the reader is taken and the first
\* reader.read() is issued
StreamBegins ==
    /\ spc = "connected"
    /\ spc' = "read"
    /\ demand' = demand
    /\ StreamSettles(timers, None)
    /\ UNCHANGED <<wire, sent, buffer, pending, emitted, streamFrame>>

\* reader.read() resolves with the next n bytes (lines 173-194); the wire
\* is ASCII, so decoder.decode(value, { stream: true }) gives one character
\* per byte
ReadReturns ==
    /\ spc = "read"
    /\ ~SignalAborted
    /\ \E n \in 1..(Len(wire) - sent) :
         LET parts == Split(buffer \o SubSeq(wire, sent + 1, sent + n))
         IN  /\ sent' = sent + n
             /\ buffer' = Rebuffer(parts)
             /\ ContinueLoop(SubSeq(parts, 1, Len(parts) - 1))
    /\ demand' = (demand /\ ~Answered(spc'))
    /\ StreamSettles(timers, SyntaxError(calls))
    /\ UNCHANGED <<wire, streamFrame>>

\* reader.read() resolves with done: the transport has closed (lines 174,
\* 197-205)
ReadDone ==
    /\ spc = "read"
    /\ sent = Len(wire)
    /\ IF TailYields(buffer)
       THEN /\ emitted' = Append(emitted, JsonParse(buffer).chunk)
            /\ spc' = "tail"
       ELSE /\ emitted' = emitted
            /\ spc' = "done"
    /\ demand' = FALSE
    /\ StreamSettles(timers, None)
    /\ UNCHANGED <<wire, sent, buffer, pending, streamFrame>>

\* the consumer asks for the next chunk: the generator resumes after the
\* yield in the loop (lines 185-189)
ResumeInLoop ==
    /\ spc = "yield"
    /\ IF AfterYield(emitted[Len(emitted)]) = "continue"
       THEN ContinueLoop(pending)
       ELSE /\ spc' = IF AfterYield(emitted[Len(emitted)]) = "return" THEN "done" ELSE "threw"
            /\ UNCHANGED <<pending, emitted>>
    /\ demand' = ~Answered(spc')
    /\ StreamSettles(timers, SyntaxError(calls))
    /\ UNCHANGED <<wire, sent, buffer, streamFrame>>

\* the consumer asks for the next chunk after the trailing one (line 201)
ResumeAfterTail ==
    /\ spc = "tail"
    /\ spc' = "done"
    /\ demand' = FALSE
    /\ StreamSettles(timers, None)
    /\ UNCHANGED <<wire, sent, buffer, pending, emitted, streamFrame>>

NextStream ==
    \/ StreamBegins
    \/ ReadReturns
    \/ ReadDone
    \/ ResumeInLoop
    \/ ResumeAfterTail

SpecStream == InitStream /\ [][NextStream]_vars

----------------------------------------------------------------------------
(* client.ts: chatStream from the call to the end of the sequence *)

MaxConnectRetries == 1
MaxTimeout == 1

StreamConfigs ==
    [max_retries : {Defined(n) : n \in 0..MaxConnectRetries},
     retry_delay_ms : {Defined(MaxInitialDelay)},
     debug : {FALSE},
     api_timeout_ms : {Undefined} \cup {Defined(n) : n \in 0..MaxTimeout}]

\* texts of the lines of a short streaming response
StreamTexts == { <<"{", "a", "}">>, <<"{", "d", "}">>, <<"{", "a">> }

\* short byte streams: at most one complete line, then a last fragment
StreamWires ==
    { Join(Append(ls, f)) :
        ls \in {<<>>} \cup { <<t>> : t \in StreamTexts },
        f \in StreamTexts \cup {<<>>} }

\* new Error('No response body for streaming')
NoBodyError == ErrorObj(<<Word("No response body for streaming")>>, 0)

\* faulty variant: a failed read is answered by reading again
AfterReadErrorReadsAgain == "read"

\* `await reader.read()` of line 173 rejects: nothing catches the error
\* before the finally block, the generator throws
AfterReadError == "threw"

InitChatStream ==
    /\ config \in StreamConfigs
    /\ debug = config.debug
    /\ policy = RetryOptionsOf([max_retries |-> Undefined, retry_delay_ms |-> Undefined,
                                debug |-> FALSE], FALSE)
    /\ pc = "idle"
    /\ attempt = 0
    /\ calls = 0
    /\ lastError = ErrorObj(<<Word("Unknown error")>>, 0)
    /\ sleepDelay = 0
    /\ settled = None
    /\ trace = <<>>
    /\ http = "none"
    /\ status = 0
    /\ timers = <<>>
    /\ requests = <<>>
    /\ authToken = InitialToken
    /\ sentTokens = <<>>
    /\ wire = <<>>
    /\ sent = 0
    /\ buffer = <<>>
    /\ pending = <<>>
    /\ emitted = <<>>
    /\ spc = "idle"
    /\ demand = FALSE
    /\ payload = NoData
    /\ outcome = Running
    /\ deadline = 0
    /\ history = <<>>

\* The operation of chatStream's withRetry up to `await fetch` (lines
\* 134-154), run when withRetry has just invoked it; fetch sends nothing
\* when its signal is already aborted.
SendStreamRequest(aborted) ==
    IF pc' = "operation"
    THEN /\ http' = "fetch"
         /\ IF aborted
            THEN UNCHANGED <<requests, sentTokens>>
            ELSE /\ requests' = Append(requests, Request(0, <<>>, FALSE))
                 /\ sentTokens' = Append(sentTokens, RequestToken)
    ELSE /\ http' = "none"
         /\ UNCHANGED <<requests, sentTokens>>

\* The connection attempt rejects with `error`: withRetry's catch; when
\* withRetry rejects, chatStream throws what it rejected with.
ConnectRejects(error) ==
    /\ Catch(error, Append(trace, Event("fail", attempt, 0, error)))
    /\ http' = "none"
    /\ spc' = IF pc' = "rejected" THEN "threw" ELSE spc
    /\ demand' = (demand /\ ~Answered(spc'))
    /\ StreamSettles(timers, settled')

\* the consumer's first next(): the body of chatStream starts (lines
\* 128-133): the timer is armed and withRetry invokes the operation
StreamCall ==
    /\ spc = "idle"
    /\ deadline' = Timeout(config)
    /\ policy' = RetryOptionsOf(config, debug)
    /\ EnterLoop(RetryOptionsOf(config, debug), 0, trace)
    /\ SendStreamRequest(FALSE)
    /\ spc' = IF pc' = "operation" THEN "connecting" ELSE "threw"
    /\ demand' = ~Answered(spc')
    /\ StreamSettles(<<"armed">>, settled')
    /\ UNCHANGED <<attempt, lastError, sleepDelay, config, debug, status, authToken, payload, history>>
    /\ UNCHANGED <<wire, sent, buffer, pending, emitted>>

\* what a step of the connection phase leaves alone
connectFrame == <<config, debug, authToken, sentTokens, payload, deadline, history>>
decodeVars == <<sent, buffer, pending, emitted>>

\* fetch resolves with a success response that has a body: withRetry
\* resolves with it (lines 161-162)
ConnectSucceeds ==
    /\ spc = "connecting" /\ pc = "operation" /\ http = "fetch"
    /\ ~SignalAborted
    /\ \E st \in {x \in Statuses : Ok(x)} :
         /\ status' = st
         /\ requests' = SetLast(requests, Request(st, <<>>, FALSE))
    /\ wire' \in StreamWires
    /\ http' = "none"
    /\ pc' = "resolved"
    /\ settled' = Value(calls)
    /\ trace' = Append(trace, Event("resolve", attempt, 0, Value(calls)))
    /\ spc' = "connected"
    /\ UNCHANGED <<policy, attempt, calls, lastError, sleepDelay, timers, demand, outcome>>
    /\ UNCHANGED <<connectFrame, decodeVars>>

\* fetch resolves with a success response without a body (lines 164-166)
ConnectWithoutBody ==
    /\ spc = "connecting" /\ pc = "operation" /\ http = "fetch"
    /\ ~SignalAborted
    /\ \E st \in {x \in Statuses : Ok(x)} :
         /\ status' = st
         /\ requests' = SetLast(requests, Request(st, <<>>, FALSE))
    /\ http' = "none"
    /\ pc' = "resolved"
    /\ settled' = Value(calls)
    /\ trace' = Append(trace, Event("resolve", attempt, 0, Value(calls)))
    /\ spc' = "threw"
    /\ demand' = FALSE
    /\ StreamSettles(timers, NoBodyError)
    /\ UNCHANGED <<policy, attempt, calls, lastError, sleepDelay, wire>>
    /\ UNCHANGED <<connectFrame, decodeVars>>

\* fetch resolves with an error response: next is res.text() (line 157)
ConnectRefused ==
    /\ spc = "connecting" /\ pc = "operation" /\ http = "fetch"
    /\ ~SignalAborted
    /\ \E st \in {x \in Statuses : ~Ok(x)} :
         /\ status' = st
         /\ requests' = SetLast(requests, Request(st, <<>>, FALSE))
    /\ http' = "text"
    /\ UNCHANGED <<retryVars, timers, wire, spc, demand, outcome>>
    /\ UNCHANGED <<connectFrame, decodeVars>>

\* res.text() resolves: the error is thrown (lines 156-159)
ConnectErrorText ==
    /\ spc = "connecting" /\ pc = "operation" /\ http = "text"
    /\ ~SignalAborted
    /\ \E body \in Bodies :
         /\ requests' = SetLast(requests, Request(status, body, TRUE))
         /\ ConnectRejects(HttpError(status, body, calls))
    /\ UNCHANGED <<status, wire>>
    /\ UNCHANGED <<connectFrame, decodeVars>>

\* the transport fails while fetch or res.text() is pending
ConnectTransportFails ==
    /\ spc = "connecting" /\ pc = "operation" /\ http \in {"fetch", "text"}
    /\ \E error \in NetworkErrors(calls) : ConnectRejects(error)
    /\ UNCHANGED <<status, requests, wire>>
    /\ UNCHANGED <<connectFrame, decodeVars>>

\* the pending fetch or res.text() rejects because the signal is aborted
ConnectAborted ==
    /\ spc = "connecting" /\ pc = "operation" /\ http \in {"fetch", "text"}
    /\ SignalAborted
    /\ ConnectRejects(AbortError(calls))
    /\ UNCHANGED <<status, requests, wire>>
    /\ UNCHANGED <<connectFrame, decodeVars>>

\* sleep(delay) resolves inside chatStream's withRetry: next attempt
ConnectSleepResolves ==
    /\ spc = "connecting" /\ pc = "sleeping"
    /\ attempt' = attempt + 1
    /\ EnterLoop(policy, attempt + 1, trace)
    /\ SendStreamRequest(SignalAborted)
    /\ UNCHANGED <<policy, lastError, sleepDelay, status, timers, wire, spc, demand, outcome>>
    /\ UNCHANGED <<config, debug, authToken, payload, deadline, history, decodeVars>>

\* chatStream's timer fires: controller.abort() (line 129)
DeadlineFires ==
    /\ spc \in {"connecting", "connected", "read", "yield", "tail"}
    /\ timers[Len(timers)] = "armed"
    /\ timers' = SetLast(timers, "fired")
    /\ UNCHANGED <<retryVars, config, debug, http, status, requests, authToken, sentTokens>>
    /\ UNCHANGED <<streamVars, callVars>>

\* reader.read() rejects because the signal is aborted
ReadAborted ==
    /\ spc = "read"
    /\ SignalAborted
    /\ spc' = AfterReadError
    /\ demand' = (demand /\ ~Answered(spc'))
    /\ timers' = IF FinallyRuns(spc') THEN ClearTimeout(timers) ELSE timers
    /\ outcome' = Threw(AbortError(calls))
    /\ UNCHANGED <<wire, decodeVars, streamFrame>>

\* reader.read() rejects because the transport fails
ReadFails ==
    /\ spc = "read"
    /\ \E error \in NetworkErrors(calls) : outcome' = Threw(error)
    /\ spc' = AfterReadError
    /\ demand' = (demand /\ ~Answered(spc'))
    /\ timers' = IF FinallyRuns(spc') THEN ClearTimeout(timers) ELSE timers
    /\ UNCHANGED <<wire, decodeVars, streamFrame>>

\* the consumer ends the iteration at a yield: return() resumes the
\* generator with a return, the finally block runs
ConsumerReturns ==
    /\ spc \in {"yield", "tail"}
    /\ spc' = "done"
    /\ demand' = FALSE
    /\ StreamSettles(timers, None)
    /\ UNCHANGED <<wire, decodeVars, streamFrame>>

NextChatStream ==
    \/ StreamCall
    \/ ConnectSucceeds
    \/ ConnectWithoutBody
    \/ ConnectRefused
    \/ ConnectErrorText
    \/ ConnectTransportFails
    \/ ConnectAborted
    \/ ConnectSleepResolves
    \/ DeadlineFires
    \/ ReadAborted
    \/ ReadFails
    \/ ConsumerReturns
    \/ NextStream

SpecChatStream == InitChatStream /\ [][NextChatStream]_vars

----------------------------------------------------------------------------
(* client.ts: listModels *)

Model(id, provider) == [id |-> id, provider |-> provider]

\* getDefaultModels() (lines 253-271)
GetDefaultModels ==
    << Model("claude-opus-4-5", "anthropic"), Model("claude-sonnet-4-5", "anthropic"),
       Model("claude-sonnet-4", "anthropic"), Model("claude-haiku-4-5", "anthropic"),
       Model("gpt-5-nano", "openai"), Model("gpt-5.2", "openai"),
       Model("gpt-4o", "openai"), Model("o3-mini", "openai"),
       Model("gemini-2.5-pro", "google"), Model("gemini-2.5-flash", "google") >>

\* A JSON value: an array of models, an object with or without a models
\* array, the number 0 or null.
Json(kind, hasModels, items) == [kind |-> kind, hasModels |-> hasModels, items |-> items]
Array(items) == Json("array", FALSE, items)
JsonNull == Json("null", FALSE, <<>>)

\* the models the server lists
ServerModels == << Model("gpt-4o", "openai"), Model("mistral-large", "mistral") >>

\* what the body of a success response of /puterai/chat/models/details
\* parses to
ModelPayloads ==
    { Json("object", TRUE, ServerModels), Json("object", TRUE, <<>>),
      Json("object", FALSE, <<>>), Array(ServerModels), Array(<<>>),
      Json("number", FALSE, <<>>), JsonNull }

\* a value that is not false, 0, "", null or undefined
Truthy(v) == v.kind \in {"array", "object"}

\* data.models || data || [] (line 239), for data other than null
ModelsOf(data) ==
    IF data.kind = "object" /\ data.hasModels THEN Array(data.items)
    ELSE IF Truthy(data) THEN data
    ELSE Array(<<>>)

\* reading a property of null
TypeError(id) == ErrorObj(<<Word("Cannot read properties of null")>>, id)

\* new Error(`Failed to fetch models (${response.status})`)
ModelsError(st, id) == ErrorObj(<<Word("Failed to fetch models"), Paren(st)>>, id)

\* faulty variant: the error of withRetry is thrown on
ListModelsRethrows(error) == Threw(error)

\* catch { ... return this.getDefaultModels() } (lines 241-247)
ListModelsCatch(error) == ReturnedList(Array(GetDefaultModels))

InitListModels ==
    /\ config \in ClientConfigs
    /\ debug = config.debug
    /\ policy = RetryOptionsOf([max_retries |-> Undefined, retry_delay_ms |-> Undefined,
                                debug |-> FALSE], FALSE)
    /\ pc = "idle"
    /\ attempt = 0
    /\ calls = 0
    /\ lastError = ErrorObj(<<Word("Unknown error")>>, 0)
    /\ sleepDelay = 0
    /\ settled = None
    /\ trace = <<>>
    /\ http = "none"
    /\ status = 0
    /\ timers = <<>>
    /\ requests = <<>>
    /\ authToken = InitialToken
    /\ sentTokens = <<>>
    /\ wire = <<>>
    /\ sent = 0
    /\ buffer = <<>>
    /\ pending = <<>>
    /\ emitted = <<>>
    /\ spc = "unused"
    /\ demand = FALSE
    /\ payload = NoData
    /\ outcome = Running
    /\ deadline = 0
    /\ history = <<>>

\* The operation of listModels up to `await fetch` (lines 227-232), run when
\* withRetry has just invoked it; when withRetry has rejected instead, the
\* catch block of listModels.
SendModelsRequest ==
    IF pc' = "operation"
    THEN /\ http' = "fetch"
         /\ requests' = Append(requests, Request(0, <<>>, FALSE))
         /\ sentTokens' = Append(sentTokens, RequestToken)
         /\ outcome' = outcome
    ELSE /\ http' = "none"
         /\ outcome' = ListModelsCatch(settled')
         /\ UNCHANGED <<requests, sentTokens>>

\* The operation rejects with `error`: withRetry's catch; when withRetry
\* rejects, the catch block of listModels.
ModelsRejects(error) ==
    /\ Catch(error, Append(trace, Event("fail", attempt, 0, error)))
    /\ http' = "none"
    /\ outcome' = IF pc' = "rejected" THEN ListModelsCatch(settled') ELSE outcome

modelsFrame == <<config, debug, timers, authToken, sentTokens, streamVars, deadline, history>>

\* listModels(): withRetry is called with this.retryOptions (lines 226-240)
ListModelsCall ==
    /\ pc = "idle"
    /\ policy' = RetryOptionsOf(config, debug)
    /\ EnterLoop(RetryOptionsOf(config, debug), 0, trace)
    /\ SendModelsRequest
    /\ UNCHANGED <<attempt, lastError, sleepDelay, config, debug, status, timers, authToken>>
    /\ UNCHANGED <<streamVars, payload, deadline, history>>

\* fetch resolves with a success response: next is response.json()
ModelsResponds ==
    /\ pc = "operation" /\ http = "fetch"
    /\ \E st \in {x \in Statuses : Ok(x)} :
         /\ status' = st
         /\ requests' = SetLast(requests, Request(st, <<>>, FALSE))
    /\ http' = "json"
    /\ UNCHANGED <<retryVars, payload, outcome, modelsFrame>>

\* fetch resolves with an error response: the error of line 235 is thrown
ModelsRefused ==
    /\ pc = "operation" /\ http = "fetch"
    /\ \E st \in {x \in Statuses : ~Ok(x)} :
         /\ status' = st
         /\ requests' = SetLast(requests, Request(st, <<>>, FALSE))
         /\ ModelsRejects(ModelsError(st, calls))
    /\ UNCHANGED <<payload, modelsFrame>>

\* response.json() resolves with data: line 239 returns data.models, data
\* or [], or throws when data is null
ModelsJsonRead ==
    /\ pc = "operation" /\ http = "json"
    /\ requests' = SetLast(requests, Request(status, <<>>, TRUE))
    /\ \E data \in ModelPayloads :
         /\ payload' = data
         /\ IF data = JsonNull
            THEN ModelsRejects(TypeError(calls))
            ELSE /\ http' = "none"
                 /\ pc' = "resolved"
                 /\ settled' = Value(calls)
                 /\ trace' = Append(trace, Event("resolve", attempt, 0, Value(calls)))
                 /\ outcome' = ReturnedList(ModelsOf(data))
                 /\ UNCHANGED <<policy, attempt, calls, lastError, sleepDelay>>
    /\ UNCHANGED <<status, modelsFrame>>

\* response.json() rejects: the body is not JSON
ModelsJsonFails ==
    /\ pc = "operation" /\ http = "json"
    /\ ModelsRejects(SyntaxError(calls))
    /\ UNCHANGED <<status, requests, payload, modelsFrame>>

\* the transport fails while fetch or response.json() is pending
ModelsTransportFails ==
    /\ pc = "operation" /\ http \in {"fetch", "json"}
    /\ \E error \in NetworkErrors(calls) : ModelsRejects(error)
    /\ UNCHANGED <<status, requests, payload, modelsFrame>>

\* sleep(delay) resolves inside listModels' withRetry: next attempt
ModelsSleepResolves ==
    /\ pc = "sleeping"
    /\ attempt' = attempt + 1
    /\ EnterLoop(policy, attempt + 1, trace)
    /\ SendModelsRequest
    /\ UNCHANGED <<policy, lastError, sleepDelay, config, debug, status, timers, authToken>>
    /\ UNCHANGED <<streamVars, payload, deadline, history>>

NextListModels ==
    \/ ListModelsCall
    \/ ModelsResponds
    \/ ModelsRefused
    \/ ModelsJsonRead
    \/ ModelsJsonFails
    \/ ModelsTransportFails
    \/ ModelsSleepResolves

SpecListModels == InitListModels /\ [][NextListModels]_vars

----------------------------------------------------------------------------
(* client.ts: testConnection, and setAuthToken during a call of chat *)

\* configurations with few retries
SmallConfigs ==
    { c \in ClientConfigs : c.max_retries.defined /\ c.max_retries.v <= MaxConnectRetries }

\* `return response.result` of chat (line 102) throws when data is null
ChatThrows(data) == data.kind = "null"

\* faulty variant: any message counts as content
HasMessage(data) == data.kind = "message"

\* !!response.message?.content for the value chat returned, when reading
\* .message does not throw
HasContent(data) == data.kind = "message" /\ data.content # ""

\* response.message of line 342 throws when chat returned undefined
ProbeThrows(data) == data.kind = "object"

InitProbe ==
    /\ InitChat
    /\ config \in SmallConfigs

\* chat settles and testConnection returns (lines 337-345): false from the
\* catch block when chat rejected or a property read threw, else
\* !!response.message?.content
TestConnectionReturns ==
    /\ pc \in {"resolved", "rejected"}
    /\ outcome = Running
    /\ outcome' = IF pc = "rejected" \/ ChatThrows(payload) \/ ProbeThrows(payload)
                  THEN ReturnedFlag(FALSE)
                  ELSE ReturnedFlag(HasContent(payload))
    /\ UNCHANGED <<retryVars, clientVars, streamVars, payload, deadline, history>>

NextProbe ==
    \/ NextChat
    \/ TestConnectionReturns

SpecProbe == InitProbe /\ [][NextProbe]_vars

\* setAuthToken(token) (lines 66-68)
SetAuthToken ==
    /\ \E token \in Tokens \ {authToken} : authToken' = token
    /\ UNCHANGED <<retryVars, config, debug, http, status, timers, requests, sentTokens>>
    /\ UNCHANGED <<streamVars, callVars>>

NextToken ==
    \/ NextChat
    \/ SetAuthToken

SpecToken == InitProbe /\ [][NextToken]_vars

----------------------------------------------------------------------------
(* client.ts: several calls of chat on one client *)

MaxCalls == 2

SessionConfigs ==
    { c \in SmallConfigs : ~c.debug /\ c.retry_delay_ms = Defined(MaxInitialDelay) }

\* faulty variant: the loop variable survives into the next call
CarriedAttempt == attempt

\* `for (let attempt = 0; ...)` (retry.ts line 185): the loop variable is a
\* local of the withRetry call
FreshAttempt == 0

InitSession ==
    /\ InitChat
    /\ config \in SessionConfigs

\* The promise of chat settles and the caller is about to call chat again:
\* the locals of makeRequest and withRetry are gone, the next call creates
\* its own (retry.ts lines 183-185, client.ts lines 288-289).
CallReturns ==
    /\ pc \in {"resolved", "rejected"}
    /\ Len(history) < MaxCalls
    /\ history' = Append(history, pc)
    /\ pc' = "idle"
    /\ attempt' = FreshAttempt
    /\ calls' = 0
    /\ lastError' = ErrorObj(<<Word("Unknown error")>>, 0)
    /\ sleepDelay' = 0
    /\ settled' = None
    /\ trace' = <<>>
    /\ status' = 0
    /\ timers' = <<>>
    /\ requests' = <<>>
    /\ sentTokens' = <<>>
    /\ payload' = NoData
    /\ UNCHANGED <<policy, config, debug, http, authToken, streamVars, outcome, deadline>>

\* the caller swaps the token between two calls
SwapBetweenCalls ==
    /\ pc = "idle"
    /\ SetAuthToken

NextSession ==
    \/ NextChat
    \/ SwapBetweenCalls
    \/ CallReturns

SpecSession == InitSession /\ [][NextSession]_vars

----------------------------------------------------------------------------
(* client.ts: the caller changes the config object after construction *)

\* the config objects of the model
MutableConfigs ==
    [max_retries : {Defined(n) : n \in 0..MaxConnectRetries},
     retry_delay_ms : {Defined(n) : n \in 1..MaxInitialDelay},
     api_timeout_ms : {Undefined} \cup {Defined(n) : n \in 0..MaxTimeout},
     debug : BOOLEAN]

InitConfig ==
    /\ Constructed(MutableConfigs)
    /\ NoCallYet

\* Before the call the caller assigns fields of the object it passed to
\* the constructor; this.config refers to that object (line 30).
MutateConfig ==
    /\ pc = "idle"
    /\ config' \in MutableConfigs \ {config}
    /\ UNCHANGED <<retryVars, debug, http, status, timers, requests, authToken, sentTokens>>
    /\ UNCHANGED <<streamVars, callVars>>

NextConfig ==
    \/ NextChat
    \/ MutateConfig

SpecConfig == InitConfig /\ [][NextConfig]_vars

----------------------------------------------------------------------------
(* retry.ts: calculateDelay called directly *)

MaxAttemptIndex == 3
MaxBackoffDen == 2
MaxSamples == 2

DEFAULT_RETRY_OPTIONS ==
    [maxRetries |-> 3,
     initialDelay |-> 1000,
     maxDelay |-> DEFAULT_MAX_DELAY,
     backoffFactor |-> DEFAULT_BACKOFF_FACTOR,
     jitter |-> TRUE,
     retryableStatuses |-> DEFAULT_RETRYABLE_STATUSES,
     hasOnRetry |-> FALSE]

\* { ...DEFAULT_RETRY_OPTIONS, ...options } for small whole and fractional
\* options
DelayPolicies ==
    [maxRetries : {0},
     initialDelay : 1..MaxInitialDelay,
     maxDelay : {MaxDelayBound - 1, MaxDelayBound},
     backoffFactor : 0..(MaxBackoff + 1),
     backoffDen : 1..MaxBackoffDen,
     jitter : BOOLEAN,
     retryableStatuses : {DEFAULT_RETRYABLE_STATUSES},
     hasOnRetry : {FALSE}]

\* calculateDelay(0, options) with the defaults, with and without jitter
DefaultDelayPolicies ==
    {DEFAULT_RETRY_OPTIONS, [DEFAULT_RETRY_OPTIONS EXCEPT !.jitter = FALSE]}

\* no call of the client or of withRetry has been made
Quiescent ==
    /\ pc = "idle"
    /\ sleepDelay = 0
    /\ settled = None
    /\ trace = <<>>
    /\ config = [max_retries |-> Undefined, retry_delay_ms |-> Undefined, debug |-> FALSE]
    /\ debug = FALSE
    /\ http = "none"
    /\ status = 0
    /\ timers = <<>>
    /\ requests = <<>>
    /\ wire = <<>>
    /\ sent = 0
    /\ buffer = <<>>
    /\ pending = <<>>
    /\ emitted = <<>>
    /\ spc = "unused"
    /\ demand = FALSE
    /\ authToken = InitialToken
    /\ sentTokens = <<>>
    /\ payload = NoData
    /\ deadline = 0
    /\ history = <<>>

InitDelay ==
    /\ \/ policy \in DelayPolicies /\ attempt \in 0..MaxAttemptIndex
       \/ policy \in DefaultDelayPolicies /\ attempt = 0
    /\ calls = 0
    /\ lastError = ErrorObj(<<Word("Unknown error")>>, 0)
    /\ outcome = Running
    /\ Quiescent

\* calculateDelay(attempt, policy) is called and returns; sleepDelay holds
\* the value returned, calls counts the calls made with these arguments
CalculateDelayReturns ==
    /\ pc = "idle"
    /\ calls < MaxSamples
    /\ \E delay \in CalculateDelay(attempt, policy) : sleepDelay' = delay
    /\ calls' = calls + 1
    /\ UNCHANGED <<policy, pc, attempt, lastError, settled, trace>>
    /\ UNCHANGED <<clientVars, streamVars, callVars>>

NextDelay == CalculateDelayReturns

SpecDelay == InitDelay /\ [][NextDelay]_vars

----------------------------------------------------------------------------
(* retry.ts: isRetryableError called directly *)

\* the retryableStatuses argument: omitted (the default list) or a custom list
StatusLists == {DEFAULT_RETRYABLE_STATUSES, <<418>>, <<401, 500>>, <<>>}

\* texts an error message is made of
MessageParts ==
    { Paren(n) : n \in {401, 418, 429, 500} }
    \cup { StatusTok(n) : n \in {418, 500} }
    \cup { StatusCap(n) : n \in {418, 500} }
    \cup { Word(TransientMarkers[j]) : j \in 1..Len(TransientMarkers) }
    \cup { Word(w) : w \in {"ECONNRESET", "ECONNREFUSED", "Timeout", "Network",
                             "Rate limit", "Too Many Requests", "Unauthorized",
                             "bad input"} }

\* the error argument: an Error, a RetryError, a string, null
ClassifiedValues ==
    { ErrorObj(<<part>>, 1) : part \in MessageParts }
    \cup { ErrorObj(<<Word("Puter API error"), part, Word("Server error")>>, 1) :
              part \in MessageParts }
    \cup { [ErrorObj(<<part>>, 1) EXCEPT !.type = "RetryError"] : part \in MessageParts }
    \cup { StringVal(<<part>>, 1) : part \in MessageParts }
    \cup { NullVal(1) }

InitClassify ==
    /\ lastError \in ClassifiedValues
    /\ \E list \in StatusLists :
          policy = [DEFAULT_RETRY_OPTIONS EXCEPT !.retryableStatuses = list]
    /\ attempt = 0
    /\ calls = 0
    /\ outcome = Running
    /\ Quiescent

\* isRetryableError(lastError, policy.retryableStatuses) returns
IsRetryableErrorReturns ==
    /\ pc = "idle"
    /\ outcome = Running
    /\ outcome' = ReturnedFlag(IsRetryableError(lastError, policy.retryableStatuses))
    /\ UNCHANGED <<retryVars, clientVars, streamVars, payload, deadline, history>>

NextClassify == IsRetryableErrorReturns

SpecClassify == InitClassify /\ [][NextClassify]_vars

----------------------------------------------------------------------------
(* client.ts: chat on a transport that may never answer *)

InitChatFair == Constructed(SmallConfigs) /\ NoCallYet

\* setTimeout callbacks run once their time has passed: the timeout timer of
\* an attempt (line 289) and the timer of sleep (retry.ts:104).  Nothing
\* obliges the transport to answer.
SpecChatFair ==
    /\ InitChatFair
    /\ [][NextChat]_vars
    /\ WF_vars(TimerFires)
    /\ WF_vars(RetrySleepResolves)

----------------------------------------------------------------------------
(* client.ts: listModels on a transport that may never answer *)

\* The only timer of listModels is the one of sleep (retry.ts:104): the
\* fetch of lines 227-232 is given no signal and no timer is armed for it.
SpecListModelsFair ==
    /\ InitListModels
    /\ [][NextListModels]_vars
    /\ WF_vars(ModelsSleepResolves)

----------------------------------------------------------------------------
(* retry.ts: createRetryFetch *)

\* response.statusText
StatusText(st) ==
    CASE st = 200 -> <<Word("OK")>>
      [] st = 401 -> <<Word("Unauthorized")>>
      [] st = 500 -> <<Word("Internal Server Error")>>
      [] OTHER -> <<>>

\* new Error(`HTTP error (${response.status}): ${response.statusText}`)
HttpStatusError(st, id) == ErrorObj(<<Word("HTTP error"), Paren(st)>> \o StatusText(st), id)

\* faulty variant: the wrapper always tests against the default list
FetchStatusesDefault(opts) == DEFAULT_RETRYABLE_STATUSES

\* line 239: options.retryableStatuses || DEFAULT_RETRY_OPTIONS.retryableStatuses
\* (a policy of the model carries the default list when the option is omitted)
FetchStatuses(opts) == opts.retryableStatuses

\* retryableStatuses.includes(response.status)
StatusListed(st, opts) ==
    \E i \in 1..Len(FetchStatuses(opts)) : FetchStatuses(opts)[i] = st

\* the operation of an attempt begins: fetch(input, init) is pending
SendFetch == http' = IF pc' = "operation" THEN "fetch" ELSE "none"

\* retryFetch(input, init): withRetry is called with the options
RetryFetchCall ==
    /\ pc = "idle"
    /\ EnterLoop(policy, 0, trace)
    /\ SendFetch
    /\ UNCHANGED <<policy, attempt, lastError, sleepDelay>>
    /\ UNCHANGED <<config, debug, status, timers, requests, authToken, sentTokens>>
    /\ UNCHANGED <<streamVars, callVars>>

\* fetch resolves with a response whose status is in the list: the
\* operation throws (lines 240-242) and the catch block of withRetry runs
FetchResponseThrown ==
    /\ pc = "operation" /\ http = "fetch"
    /\ \E st \in {x \in Statuses : StatusListed(x, policy)} :
         /\ status' = st
         /\ history' = Append(history, st)
         /\ Catch(HttpStatusError(st, calls),
                  Append(trace, Event("fail", attempt, 0, HttpStatusError(st, calls))))
    /\ http' = "none"
    /\ UNCHANGED <<config, debug, timers, requests, authToken, sentTokens>>
    /\ UNCHANGED <<streamVars, payload, outcome, deadline>>

\* fetch resolves with a response whose status is not in the list: the
\* operation returns it (line 244) and withRetry resolves
FetchResponseReturned ==
    /\ pc = "operation" /\ http = "fetch"
    /\ \E st \in {x \in Statuses : ~StatusListed(x, policy)} :
         /\ status' = st
         /\ history' = Append(history, st)
    /\ http' = "none"
    /\ pc' = "resolved"
    /\ settled' = Value(calls)
    /\ trace' = Append(trace, Event("resolve", attempt, 0, Value(calls)))
    /\ UNCHANGED <<policy, attempt, calls, lastError, sleepDelay>>
    /\ UNCHANGED <<config, debug, timers, requests, authToken, sentTokens>>
    /\ UNCHANGED <<streamVars, payload, outcome, deadline>>

\* fetch rejects: no response; the catch block of withRetry runs
FetchRejects ==
    /\ pc = "operation" /\ http = "fetch"
    /\ \E error \in NetworkErrors(calls) :
         Catch(error, Append(trace, Event("fail", attempt, 0, error)))
    /\ http' = "none"
    /\ UNCHANGED <<config, debug, status, timers, requests, authToken, sentTokens>>
    /\ UNCHANGED <<streamVars, callVars>>

\* sleep(delay) resolves inside retryFetch's withRetry: next attempt
FetchSleepResolves ==
    /\ pc = "sleeping"
    /\ attempt' = attempt + 1
    /\ EnterLoop(policy, attempt + 1, trace)
    /\ SendFetch
    /\ UNCHANGED <<policy, lastError, sleepDelay>>
    /\ UNCHANGED <<config, debug, status, timers, requests, authToken, sentTokens>>
    /\ UNCHANGED <<streamVars, callVars>>

NextRetryFetch ==
    \/ RetryFetchCall
    \/ FetchResponseThrown
    \/ FetchResponseReturned
    \/ FetchRejects
    \/ FetchSleepResolves

SpecRetryFetch == InitRetry /\ [][NextRetryFetch]_vars

----------------------------------------------------------------------------
(* Observations on the trace of a withRetry call *)

EventsOf(kind) == SelectSeq(trace, LAMBDA e : e.ev = kind)

FailureValues == [i \in 1..Len(EventsOf("fail")) |-> EventsOf("fail")[i].value]

LastFailure == FailureValues[Len(FailureValues)]

Retryable(v) == IsRetryableError(v, policy.retryableStatuses)

AllFailuresRetryable == \A i \in 1..Len(FailureValues) : Retryable(FailureValues[i])

\* number of trace events per failed attempt: invoke, fail, [onRetry], sleep
Stride == IF policy.hasOnRetry THEN 4 ELSE 3

----------------------------------------------------------------------------
(* Claims about withRetry, checked under SpecRetry *)

C2_NoRetryOfPermanent ==
    \A i \in 1..Len(trace) :
        (trace[i].ev = "fail" /\ ~Retryable(trace[i].value)) =>
            /\ Len(trace) = i + 1
            /\ trace[i + 1].ev = "reject"
            /\ pc = "rejected"
            /\ calls = trace[i].attempt + 1

C2_Witness ==
    /\ pc = "rejected"
    /\ policy.maxRetries = 2
    /\ calls = 1
    /\ LastFailure.type = "null"
    /\ EventsOf("sleep") = <<>>
    /\ EventsOf("onRetry") = <<>>

\* C3: k retryable failures followed by a success give exactly k + 1
\* invocations, the success value, and between two consecutive invocations
\* one onRetry (when supplied) followed by one sleep; the i-th onRetry gets
\* attempt index i and a delay calculateDelay(i-1, policy) can return, which
\* is the delay slept; without jitter and with backoffFactor >= 1 the delays
\* do not decrease.
C3_RetryThenSuccess ==
    pc = "resolved" =>
        LET k == Len(FailureValues)
            sleeps == EventsOf("sleep")
            retries == EventsOf("onRetry")
        IN  /\ k <= policy.maxRetries
            /\ calls = k + 1
            /\ settled = Value(k + 1)
            /\ Len(trace) = Stride * k + 2
            /\ trace[Len(trace)].ev = "resolve"
            /\ trace[Len(trace) - 1].ev = "invoke"
            /\ \A i \in 1..k :
                 /\ trace[Stride * (i - 1) + 1].ev = "invoke"
                 /\ trace[Stride * (i - 1) + 2].ev = "fail"
                 /\ Retryable(trace[Stride * (i - 1) + 2].value)
                 /\ policy.hasOnRetry =>
                      /\ trace[Stride * (i - 1) + 3].ev = "onRetry"
                      /\ trace[Stride * (i - 1) + 3].attempt = i
                      /\ trace[Stride * (i - 1) + 3].delay = trace[Stride * i].delay
                      /\ trace[Stride * (i - 1) + 3].value = trace[Stride * (i - 1) + 2].value
                 /\ trace[Stride * i].ev = "sleep"
                 /\ trace[Stride * i].delay \in CalculateDelay(i - 1, policy)
            /\ Len(sleeps) = k
            /\ Len(retries) = IF policy.hasOnRetry THEN k ELSE 0
            /\ (~policy.jitter /\ policy.backoffFactor >= 1) =>
                 \A i \in 1..(k - 1) : sleeps[i].delay <= sleeps[i + 1].delay

C3_Witness ==
    /\ pc = "resolved"
    /\ calls = 3
    /\ policy.hasOnRetry
    /\ ~policy.jitter
    /\ Len(EventsOf("onRetry")) = 2
    /\ EventsOf("onRetry")[1].attempt = 1
    /\ EventsOf("onRetry")[2].attempt = 2
    /\ EventsOf("onRetry")[1].delay < EventsOf("onRetry")[2].delay

\* C4 as stated: whatever value the last invocation failed with, withRetry
\* rejects with that very value.
C4_RejectsWithFailureValue ==
    (pc = "rejected" /\ Len(FailureValues) > 0) => settled = LastFailure

\* C4 amended: an Error instance is rejected as that very object; a
\* non-Error value v is rejected as a new Error whose message is String(v).
C4_RejectsWithNormalizedFailure ==
    (pc = "rejected" /\ Len(FailureValues) > 0 /\ policy.maxRetries >= 0) =>
        IF IsErrorInstance(LastFailure)
        THEN settled = LastFailure
        ELSE /\ settled = ErrorObj(StringOf(LastFailure), 0)
             /\ settled # LastFailure

C4_Witness ==
    /\ pc = "rejected"
    /\ Len(FailureValues) > 0
    /\ LastFailure.type = "string"
    /\ settled.type = "Error"
    /\ settled.id = 0
    /\ settled.message = LastFailure.message

----------------------------------------------------------------------------
(* Claims about chat, checked under SpecChat *)

PermanentStatus(st) ==
    ~Ok(st) /\ \A i \in 1..Len(DEFAULT_RETRYABLE_STATUSES) : st # DEFAULT_RETRYABLE_STATUSES[i]

\* C6: once chat has read an unsuccessful response whose status is none of
\* 429, 500, 502, 503, 504, whatever its body text, no request follows it:
\* the call has failed with the error embedding that status and body text
\* (and the response was the answer to the only request when it was the
\* first one).
C6_PermanentStatusNotRetried ==
    \A i \in 1..Len(requests) :
        (requests[i].read /\ PermanentStatus(requests[i].status)) =>
            /\ Len(requests) = i
            /\ pc = "rejected"
            /\ settled = HttpError(requests[i].status, requests[i].body, i)

----------------------------------------------------------------------------
(* Claims about the decoding of chatStream, checked under SpecStream *)

\* the lines of the whole wire; the last one is the fragment after the last
\* newline
WireLines == Split(wire)

WellFormed(line) == Trim(line) # <<>> /\ JsonParse(line).ok

\* the chunks of the well-formed lines of ls, up to the first done chunk
RECURSIVE ChunksOf(_)
ChunksOf(ls) ==
    IF ls = <<>> THEN <<>>
    ELSE IF ~WellFormed(Head(ls)) THEN ChunksOf(Tail(ls))
    ELSE IF JsonParse(Head(ls)).chunk.done THEN <<JsonParse(Head(ls)).chunk>>
    ELSE <<JsonParse(Head(ls)).chunk>> \o ChunksOf(Tail(ls))

IsPrefix(a, b) == Len(a) <= Len(b) /\ SubSeq(b, 1, Len(a)) = a

DoneEmitted == emitted # <<>> /\ emitted[Len(emitted)].done

\* index of the first line of the wire that is a done chunk, or one more
\* than the number of lines
FirstDone ==
    LET ds == { k \in 1..Len(WireLines) :
                  WellFormed(WireLines[k]) /\ JsonParse(WireLines[k]).chunk.done }
    IN  IF ds = {} THEN Len(WireLines) + 1 ELSE CHOOSE k \in ds : \A m \in ds : k <= m

\* number of well-formed lines among the first k lines of the wire
WellFormedUpTo(k) == Cardinality({ m \in 1..k : WellFormed(WireLines[m]) })

\* C7: whatever the split of the wire into reads, the chunks emitted so far
\* are the chunks of the well-formed lines in line order, and the finished
\* sequence is exactly the chunks of the well-formed lines up to the first
\* done chunk: a function of the wire alone.
C7_SplitInvariantOrder ==
    /\ IsPrefix(emitted, ChunksOf(WireLines))
    /\ spc = "done" => emitted = ChunksOf(WireLines)
    /\ spc \in {"connected", "read", "yield", "tail", "done"}

C7_Witness ==
    /\ spc = "done"
    /\ wire = Join(<< <<"{", "a", "}">>, <<"n">>, <<"{", "d", "}">>, <<>> >>)
    /\ emitted = <<Chunk("a", FALSE), Chunk("null", FALSE), Chunk("", TRUE)>>

\* C8: once a chunk with done = true has been emitted, the only step left
\* is the end of the sequence: no chunk is emitted, no byte is read and no
\* read is pending afterwards.
C8_DoneEndsSequence ==
    [][DoneEmitted => (emitted' = emitted /\ sent' = sent /\ spc' = "done")]_vars

C8_Witness ==
    /\ spc = "done"
    /\ DoneEmitted
    /\ pending # <<>>
    /\ \E i \in 1..Len(pending) : WellFormed(pending[i])
    /\ buffer # <<>>
    /\ sent < Len(wire)

\* C9: a complete line that is blank or does not parse raises no error and
\* gives no chunk, and every well-formed line after it, up to the first done
\* chunk, is emitted at its place in line order.
C9_MalformedLineSkipped ==
    /\ spc # "threw"
    /\ spc = "done" =>
         \A j \in 1..(Len(WireLines) - 1) :
             (~WellFormed(WireLines[j]) /\ j < FirstDone) =>
                 /\ Len(emitted) = WellFormedUpTo(Min(FirstDone, Len(WireLines)))
                 /\ \A k \in (j + 1)..Min(FirstDone, Len(WireLines)) :
                      WellFormed(WireLines[k]) =>
                          emitted[WellFormedUpTo(k)] = JsonParse(WireLines[k]).chunk

C9_Witness ==
    /\ spc = "done"
    /\ Len(WireLines) = 4
    /\ WireLines[1] = <<"{", "a">>
    /\ WireLines[2] = <<" ">>
    /\ WireLines[3] = <<"{", "a", "}">>
    /\ WireLines[4] = <<>>
    /\ emitted = <<Chunk("a", FALSE)>>

\* C10: when the transport closes and no complete line was a done chunk, the
\* fragment after the last newline is parsed once: the sequence ends with
\* the chunks of the complete lines followed by the fragment's chunk if the
\* fragment is non-blank and well-formed, and by nothing otherwise.
C10_TrailingFragment ==
    LET n == Len(WireLines)
        complete == SubSeq(WireLines, 1, n - 1)
        fragment == WireLines[n]
    IN  /\ spc # "threw"
        /\ spc = "tail" =>
             /\ sent = Len(wire)
             /\ WellFormed(fragment)
             /\ emitted = ChunksOf(complete) \o <<JsonParse(fragment).chunk>>
        /\ (spc = "done" /\ FirstDone >= n) =>
             /\ sent = Len(wire)
             /\ buffer = fragment
             /\ emitted = ChunksOf(complete) \o
                   (IF WellFormed(fragment) THEN <<JsonParse(fragment).chunk>> ELSE <<>>)

C10_Witness ==
    /\ spc = "done"
    /\ ~DoneEmitted
    /\ Len(emitted) >= 2
    /\ WellFormed(WireLines[Len(WireLines)])
    /\ emitted[Len(emitted)] = JsonParse(buffer).chunk
    /\ sent = Len(wire)

\* the generator of chatStream has returned or thrown
Ended == spc \in {"done", "threw"}

\* C11: on every exit of a started chatStream call (normal end, early done,
\* failed connection, missing body, failed read, the consumer ending the
\* iteration) the one timer of the call is cancelled: once the sequence has
\* ended the timer is not armed, so it can no longer fire an abort.
C11_TimerCancelledOnExit ==
    Ended => /\ Len(timers) = 1
             /\ timers[1] # "armed"
             /\ ~(ENABLED DeadlineFires)

C11_Witness ==
    /\ spc = "done"
    /\ timers = <<"cleared">>
    /\ sent < Len(wire)
    /\ emitted # <<>>
    /\ ~DoneEmitted

\* C12: only the connection of chatStream is retried: the call sends at most
\* max_retries + 1 HTTP requests; once the connection has succeeded no
\* further request is sent and withRetry is not entered again; a read that
\* fails afterwards ends the sequence with that failure.
C12_OnlyConnectionRetried ==
    [][ /\ Len(requests') <= Nullish(config.max_retries, DEFAULT_MAX_RETRIES) + 1
        /\ pc = "resolved" => (requests' = requests /\ calls' = calls /\ pc' = "resolved")
        /\ (spc = "read" /\ outcome'.kind = "threw") => (spc' = "threw" /\ Ended') ]_vars

C12_Witness ==
    /\ spc = "threw"
    /\ pc = "resolved"
    /\ Len(requests) = 2
    /\ sent > 0
    /\ outcome.error \in NetworkErrors(calls)

\* C13: chatStream reads on demand: a reader.read() is pending only while a
\* next() of the consumer is unanswered and every line decoded from the
\* earlier reads has been visited, so the lines held back are always those
\* of a single read.
C13_PullBased ==
    /\ spc = "read" => (demand /\ pending = <<>>)
    /\ pending # <<>> => spc \in {"yield", "done"}

C13_Witness ==
    /\ spc = "read"
    /\ demand
    /\ Len(emitted) >= 2
    /\ sent > 0
    /\ sent < Len(wire)

\* the timer of the chatStream call has fired
DeadlineFired == timers # <<>> /\ timers[Len(timers)] = "fired"

ModelsFetchFailed == pc = "rejected"

\* C15: listModels never fails: when the fetch does not succeed, whatever
\* the failure and the number of retries, it returns the fixed default
\* catalog, which is not empty, lists claude-opus-4-5 and has at least four
\* models of provider anthropic.
C15_ListModelsNeverFails ==
    /\ outcome.kind # "threw"
    /\ pc \in {"resolved", "rejected"} => outcome.kind = "returned"
    /\ ModelsFetchFailed =>
         /\ outcome.models = Array(GetDefaultModels)
         /\ Len(outcome.models.items) > 0
         /\ \E k \in 1..Len(outcome.models.items) :
                outcome.models.items[k].id = "claude-opus-4-5"
         /\ Cardinality({k \in 1..Len(outcome.models.items) :
                outcome.models.items[k].provider = "anthropic"}) >= 4

C15_Witness ==
    /\ ModelsFetchFailed
    /\ calls = 3
    /\ status = 500
    /\ outcome.kind = "returned"
    /\ outcome.models = Array(GetDefaultModels)

\* the result the payload of a successful fetch is to give: its models
\* field if present, else the payload itself, else the empty list
ExpectedModels(data) ==
    IF data.kind = "object" /\ data.hasModels THEN Array(data.items)
    ELSE IF data.kind \in {"object", "array"} THEN data
    ELSE Array(<<>>)

\* C16: when the fetch of listModels succeeds with payload P, the result is
\* P.models if present, else P, else the empty list, for every payload (an
\* object with or without models, a bare array, an empty models array,
\* null), and never the default catalog.
C16_PayloadDecidesResult ==
    (payload \in ModelPayloads /\ outcome.kind = "returned") =>
        /\ outcome.models = ExpectedModels(payload)
        /\ outcome.models # Array(GetDefaultModels)

\* C17: testConnection never throws; it returns a boolean that is true
\* exactly when chat resolved with a response whose message has non-empty
\* content.
C17_ProbeNeverThrows ==
    /\ outcome.kind # "threw"
    /\ outcome.kind = "returned" =>
         (outcome.flag <=> (pc = "resolved" /\ payload.kind = "message" /\ payload.content # ""))

C17_Witness ==
    /\ outcome = ReturnedFlag(FALSE)
    /\ pc = "resolved"
    /\ payload = Data("message", "")

\* C18 as stated: every request of a call of chat, retries after a
\* setAuthToken included, carries the token that was current when the call
\* was issued.
C18_CallKeepsToken ==
    \A k \in 1..Len(sentTokens) : sentTokens[k] = sentTokens[1]

\* C18: every request of a call of chat carries the token that is current
\* when that request is sent, so a retry sent after setAuthToken carries the
\* new token; the requests already sent keep the token they were sent with.
C18_RequestCarriesCurrentToken ==
    [][ /\ Len(sentTokens') = Len(requests')
        /\ Len(sentTokens') >= Len(sentTokens)
        /\ SubSeq(sentTokens', 1, Len(sentTokens)) = sentTokens
        /\ Len(sentTokens') > Len(sentTokens) =>
             (Len(sentTokens') = Len(sentTokens) + 1 /\ sentTokens'[Len(sentTokens')] = authToken) ]_vars

C18_Witness ==
    /\ Len(sentTokens) = 2
    /\ sentTokens[1] = InitialToken
    /\ sentTokens[2] # InitialToken
    /\ authToken = sentTokens[2]
    /\ pc = "resolved"

\* the timers of the call that are armed
ArmedTimers == { k \in 1..Len(timers) : timers[k] = "armed" }

\* C19: makeRequest clears the timer of every attempt whatever its outcome:
\* at most one timer of a call is armed, that of the running attempt; none
\* is armed while withRetry waits between attempts or after the call has
\* settled; a timer that is cleared or has fired never changes again, so it
\* touches no later attempt and no other call.
C19_TimerClearedPerAttempt ==
    [][ /\ Cardinality(ArmedTimers') <= 1
        /\ ArmedTimers' # {} =>
             (pc' = "operation" /\ ArmedTimers' = {Len(timers')} /\ Len(timers') = calls')
        /\ \A k \in 1..Len(timers) :
             (timers[k] # "armed" /\ k <= Len(timers')) => timers'[k] = timers[k]
        /\ \A k \in 1..Len(timers) :
             (k <= Len(timers') /\ timers'[k] = "fired" /\ timers[k] # "fired") =>
                 (k = Len(timers) /\ k = calls /\ pc = "operation") ]_vars

C19_Witness ==
    /\ pc = "sleeping"
    /\ timers = <<"cleared">>
    /\ history = <<"rejected">>

C21_ConfigResolvedAtCall ==
    pc # "idle" =>
        /\ policy.maxRetries = Nullish(config.max_retries, DEFAULT_MAX_RETRIES)
        /\ policy.initialDelay = Nullish(config.retry_delay_ms, DEFAULT_RETRY_DELAY)
        /\ deadline = Timeout(config)
        /\ policy.hasOnRetry = config.debug

----------------------------------------------------------------------------
(* Claims about calculateDelay, checked under SpecDelay *)

\* the capped delay min(d * f^attempt, m) of the arguments, as a fraction
Capped == CappedDelay(attempt, policy)

\* C22: with jitter disabled calculateDelay returns min(d * f^attempt, m)
\* rounded to the nearest integer, halves rounded up: it equals the capped
\* delay exactly whenever that is a whole number, and every call with the
\* same arguments returns the same value.
C22_NoJitterRounded ==
    [][(~policy.jitter /\ calls' = calls + 1) =>
          /\ -Capped.den < 2 * (sleepDelay' * Capped.den - Capped.num)
          /\ 2 * (sleepDelay' * Capped.den - Capped.num) <= Capped.den
          /\ (Capped.num % Capped.den = 0 => sleepDelay' * Capped.den = Capped.num)
          /\ (calls >= 1 => sleepDelay' = sleepDelay)]_vars

\* a second call without jitter whose capped delay is not a whole number
C22_Witness ==
    /\ ~policy.jitter
    /\ calls = MaxSamples
    /\ Capped.num % Capped.den # 0
    /\ sleepDelay * Capped.den > Capped.num

\* C22 as stated: without jitter the value returned is min(d * f^attempt, m)
\* exactly
C22_NoJitterExact ==
    (~policy.jitter /\ calls >= 1) => sleepDelay * Capped.den = Capped.num

\* another call with the same arguments can return a different value
OtherValuePossible == ENABLED (CalculateDelayReturns /\ sleepDelay' # sleepDelay)

\* C23: with jitter enabled every value calculateDelay returns is a
\* non-negative integer that is the rounding of a value in [0.75c, 1.25c],
\* c being the capped delay (in [750, 1250] for attempt 0 and the default
\* initialDelay 1000), and whenever c > 2 more than one distinct value is
\* possible for the same arguments.
C23_JitterWithinQuarter ==
    (policy.jitter /\ calls >= 1) =>
        /\ sleepDelay \in Nat
        /\ 4 * Capped.den * sleepDelay + 2 * Capped.den >= 3 * Capped.num
        /\ 4 * Capped.den * sleepDelay <= 5 * Capped.num + 2 * Capped.den
        /\ (policy = DEFAULT_RETRY_OPTIONS /\ attempt = 0) =>
               (sleepDelay >= 750 /\ sleepDelay <= 1250)
        /\ (calls < MaxSamples /\ Capped.num > 2 * Capped.den) => OtherValuePossible

\* a jittered value above a capped delay greater than 2
C23_Witness ==
    /\ policy.jitter
    /\ calls = 1
    /\ Capped.num > 2 * Capped.den
    /\ sleepDelay * Capped.den > Capped.num

\* C23 as stated: with jitter more than one distinct value is possible for
\* the same arguments, whatever they are
C23_JitterAlwaysVaries ==
    (policy.jitter /\ calls = 1) => OtherValuePossible

----------------------------------------------------------------------------
(* Claims about isRetryableError, checked under SpecClassify *)

\* the spellings of the transient markers that occur in messages
MarkerSpellings ==
    {"timeout", "Timeout", "econnreset", "ECONNRESET", "econnrefused",
     "ECONNREFUSED", "network", "Network", "socket hang up", "rate limit",
     "Rate limit", "too many requests", "Too Many Requests"}

\* the statuses of the list given to isRetryableError
ListedStatuses == { policy.retryableStatuses[i] : i \in 1..Len(policy.retryableStatuses) }

\* the message of the classified value has "(N)" or "status N", in any
\* case, for a listed N, or one of the markers, in any case
MessageIsTransient ==
    \E i \in 1..Len(lastError.message) :
        LET part == lastError.message[i]
        IN  \/ part.k \in {"paren", "status", "Status"} /\ part.n \in ListedStatuses
            \/ part.k = "word" /\ part.w \in MarkerSpellings

\* C24: isRetryableError returns true exactly when its argument is an Error
\* whose message contains, case-insensitively, "(N)" or "status N" for an N
\* of the status list, or one of the seven markers; it returns false for
\* every value that is not an Error, and a custom list replaces the default
\* one.
C24_RetryableIffTransientError ==
    outcome.kind = "returned" =>
        outcome.flag = (lastError.type \in {"Error", "RetryError"} /\ MessageIsTransient)

\* an Error with "Status 418" is retryable under the custom list <<418>>
C24_Witness ==
    /\ outcome = ReturnedFlag(TRUE)
    /\ policy.retryableStatuses = <<418>>
    /\ lastError = ErrorObj(<<StatusCap(418)>>, 1)

----------------------------------------------------------------------------
(* Claims about the waits of withRetry, checked under SpecRetry *)

\* C25: maxDelay bounds every wait: whatever the policy, jitter included,
\* and whatever the attempt, the delay withRetry passes to onRetry and
\* sleeps for is at most maxDelay.
C25_DelayAtMostMaxDelay ==
    \A i \in 1..Len(trace) :
        trace[i].ev \in {"onRetry", "sleep"} => trace[i].delay <= policy.maxDelay

----------------------------------------------------------------------------
(* Claims about termination, checked under the specifications with fairness *)

\* C26: a chat call that was started eventually returns or throws, even
\* when the transport never answers, provided armed timers eventually fire;
\* it makes at most max_retries + 1 attempts and at most max_retries waits.
C26_ChatTerminates ==
    /\ [](calls <= policy.maxRetries + 1)
    /\ [](Len(EventsOf("sleep")) <= policy.maxRetries)
    /\ (pc \in {"operation", "sleeping"}) ~> (pc \in {"resolved", "rejected"})

\* a call ended by its timeout timer while the body of a response was awaited
C26_Witness ==
    /\ pc = "rejected"
    /\ timers[Len(timers)] = "fired"
    /\ status = 200

\* C27: a listModels call that was started eventually returns a list, the
\* live catalog or the default one, even when the transport never answers,
\* provided armed timers eventually fire.
C27_ListModelsTerminates ==
    (pc \in {"operation", "sleeping"}) ~> (outcome.kind = "returned")

----------------------------------------------------------------------------
(* Claims about createRetryFetch, checked under SpecRetryFetch *)

\* the status is in the retryableStatuses of the options
InPolicyList(st) ==
    \E i \in 1..Len(policy.retryableStatuses) : policy.retryableStatuses[i] = st

\* C28: history lists the statuses of the responses fetch resolved with.  A
\* response whose status is not in retryableStatuses ends the call and is
\* what the wrapper returns, so no fetch follows it; a response whose status
\* is in the list is never returned: it is followed by a wait and another
\* fetch, and when every fetch of the call was answered that way the
\* wrapper rejects, with the error made of the last response, after exactly
\* maxRetries + 1 fetches.
C28_RetriesExactlyListedStatuses ==
    /\ \A i \in 1..(Len(history) - 1) : InPolicyList(history[i])
    /\ pc = "resolved" => (history # <<>> /\ ~InPolicyList(history[Len(history)]))
    /\ (history # <<>> /\ ~InPolicyList(history[Len(history)])) => pc = "resolved"
    /\ (pc = "resolved" /\ EventsOf("fail") = <<>>) => calls = 1
    /\ (history # <<>> /\ InPolicyList(history[Len(history)]) /\ Len(history) = calls) =>
           /\ pc \in {"sleeping", "rejected"}
           /\ pc = "rejected" =>
                 /\ calls = policy.maxRetries + 1
                 /\ settled = HttpStatusError(history[Len(history)], calls)

\* three fetches answered 401 under the list <<401>> and maxRetries = 2
C28_Witness ==
    /\ pc = "rejected"
    /\ policy.retryableStatuses = <<401>>
    /\ history = <<401, 401, 401>>
    /\ calls = 3

====
